---- MODULE Spec2Model ----
(***************************************************************************)
(* The ledger of HNG13_Stage-9 (src/modules/wallet/wallet.service.ts):     *)
(* wallets and transactions ("ledger entries") kept in a PostgreSQL store,  *)
(* mutated by concurrent requests.  Each request is a process; a process   *)
(* takes one step per awaited store query.  The store is modelled as       *)
(* PostgreSQL runs it under TypeORM's defaults: READ COMMITTED isolation,   *)
(* writes of a transaction are private until commit, UPDATE and            *)
(* SELECT ... FOR UPDATE take the row's lock until commit or rollback, and  *)
(* a plain SELECT reads the last committed row without any lock.           *)
(*                                                                         *)
(* Money is in naira (integers); the gateway notifies in kobo and the      *)
(* notified amounts are drawn from multiples of KoboPerNaira, so that the  *)
(* division of the code is exact.                                          *)
(***************************************************************************)
EXTENDS Integers, Sequences, FiniteSets, TLC

(* ------------------------------ bounds -------------------------------- *)

\* The number of requests the environment issues in one behaviour.
MaxOps ==
    3

(* ------------------------- program constants -------------------------- *)

MinTransfer ==
    100

MinDeposit ==
    100

KoboPerNaira ==
    100

(* ---------------------------- environment ----------------------------- *)

\* The slots of the requests in flight: two requests run concurrently.
Procs ==
    {1, 2}

\* u3 is an authenticated user that owns no wallet.
Users ==
    {"u1", "u2", "u3"}

WalletIds ==
    {1, 2}

NoWallet ==
    0

\* The wallet rows: Wallet.userId and Wallet.walletNumber, both immutable.
WalletUserId(w) ==
    IF w = 1 THEN "u1" ELSE "u2"

WalletNumber(w) ==
    IF w = 1 THEN "W1" ELSE "W2"

\* payload.data.amount of a gateway notification, in kobo.
KoboAmounts ==
    {10000, 20000}

\* findOne(Wallet, {where: {userId}}): the wallet's id, or NoWallet.
FindWalletByUser(user) ==
    IF \E w \in WalletIds : WalletUserId(w) = user
    THEN CHOOSE w \in WalletIds : WalletUserId(w) = user
    ELSE NoWallet

\* findOne(Wallet, {where: {walletNumber}}): the wallet's id, or NoWallet.
FindWalletByNumber(number) ==
    IF \E w \in WalletIds : WalletNumber(w) = number
    THEN CHOOSE w \in WalletIds : WalletNumber(w) = number
    ELSE NoWallet

(* ------------------------------- state -------------------------------- *)

VARIABLES
    balance,        \* committed Wallet.balance, by wallet id
    entries,        \* committed Transaction rows, in insertion order
    rowLocks,       \* row locks held: <<table, row id, process>>
    pc,             \* each request's position in its handler
    op,             \* each running request's input
    local,          \* each running request's local variables (what it has read)
    wbuf,           \* each running request's uncommitted writes
    response,       \* the last answer: what was returned or thrown, and the
                    \* request itself when it was answered before any query
    nextRef,        \* the next reference generateReference() returns
    opsStarted,     \* requests issued so far
    creditedTotal,  \* history: sum of the credits of committed success processings
    credits         \* history: per reference, the commits of success processings
                    \* that raised the wallet's balance by the notified amount

vars ==
    <<balance, entries, rowLocks, pc, op, local, wbuf, response, nextRef,
      opsStarted, creditedTotal, credits>>

NoRef ==
    0

NoOp ==
    [kind |-> "none", user |-> "", wallet_number |-> "", amount |-> 0,
     reference |-> NoRef, event |-> "", signature |-> <<>>]

NoLocal ==
    [senderId |-> NoWallet, senderBalance |-> 0,
     recipientId |-> NoWallet, recipientBalance |-> 0,
     txnId |-> 0, txnStatus |-> "", txnMetadata |-> {},
     walletId |-> NoWallet, walletBalance |-> 0]

NoWrites ==
    [balance |-> <<>>, txn |-> <<>>, inserts |-> <<>>]

NoResult ==
    [exception |-> "", message |-> "", reference |-> NoRef, status |-> "",
     amount |-> 0, metadata |-> {}]

Returned ==
    [NoResult EXCEPT !.exception = "none"]

Thrown(exception, message) ==
    [NoResult EXCEPT !.exception = exception, !.message = message]

TransferOp(user, wallet_number, amount) ==
    [NoOp EXCEPT !.kind = "transfer", !.user = user,
                 !.wallet_number = wallet_number, !.amount = amount]

DepositOp(user, amount, reference) ==
    [NoOp EXCEPT !.kind = "deposit", !.user = user, !.amount = amount,
                 !.reference = reference]

WebhookOp(event, reference, amount, signature) ==
    [NoOp EXCEPT !.kind = "webhook", !.event = event, !.reference = reference,
                 !.amount = amount, !.signature = signature]

StatusOp(user, reference) ==
    [NoOp EXCEPT !.kind = "status", !.user = user, !.reference = reference]

(* ------------------------------ the store ----------------------------- *)

Holders(table, id) ==
    {q \in Procs : <<table, id, q>> \in rowLocks}

\* (mutant) the lock option is dropped: no query waits for a row lock.
LockFree_NotTaken(p, table, id) ==
    TRUE

\* A row lock is granted when no other transaction holds it.
LockFree(p, table, id) ==
    Holders(table, id) \subseteq {p}

\* rollbackTransaction()/commitTransaction() + release(): the locks go.
ReleaseLocks(p) ==
    {l \in rowLocks : l[3] # p}

\* The committed rows with the writes of p's transaction applied.
CommittedBalance(p) ==
    [w \in WalletIds |->
        IF w \in DOMAIN wbuf[p].balance THEN wbuf[p].balance[w] ELSE balance[w]]

CommittedEntries(p) ==
    [i \in 1..Len(entries) |->
        IF i \in DOMAIN wbuf[p].txn
        THEN [entries[i] EXCEPT !.status = wbuf[p].txn[i].status,
                                !.metadata = wbuf[p].txn[i].metadata]
        ELSE entries[i]]
    \o wbuf[p].inserts

\* findOne(Transaction, {where: {reference}}): the row's position, or 0.
FindTransaction(reference) ==
    IF \E i \in 1..Len(entries) : entries[i].reference = reference
    THEN CHOOSE i \in 1..Len(entries) : entries[i].reference = reference
    ELSE 0

\* The store the service starts on, as initiateDeposit(u1, 100), the
\* notification charge.success(reference 1, 10000 kobo) and a second
\* initiateDeposit(u1, 100) leave an empty store: wallet 1 holds 100 from its
\* credited deposit 1 and has deposit 2 pending; wallet 2 is empty.
InitialBalance ==
    [w \in WalletIds |-> IF w = 1 THEN 100 ELSE 0]

InitialEntries ==
    << [walletId |-> 1, type |-> "deposit", amount |-> 100,
        status |-> "success", reference |-> 1,
        recipientWalletNumber |-> "", senderWalletNumber |-> "",
        metadata |-> {"webhook_received", "success_time", "paystack_response"}],
       [walletId |-> 1, type |-> "deposit", amount |-> 100,
        status |-> "pending", reference |-> 2,
        recipientWalletNumber |-> "", senderWalletNumber |-> "",
        metadata |-> {}] >>

Init ==
    /\ balance = InitialBalance
    /\ entries = InitialEntries
    /\ rowLocks = {}
    /\ pc = [p \in Procs |-> "idle"]
    /\ op = [p \in Procs |-> NoOp]
    /\ local = [p \in Procs |-> NoLocal]
    /\ wbuf = [p \in Procs |-> NoWrites]
    /\ response = [op |-> NoOp, result |-> NoResult]
    /\ nextRef = Len(InitialEntries) + 1
    /\ opsStarted = 0
    /\ creditedTotal = 0
    /\ credits = [i \in 1..Len(InitialEntries) |-> 0]

\* A request is issued: the environment may issue MaxOps of them.  A request
\* takes the first free slot (the slots are interchangeable names).
Issue(p) ==
    /\ pc[p] = "idle"
    /\ \A q \in Procs : q < p => pc[q] # "idle"
    /\ opsStarted < MaxOps
    /\ opsStarted' = opsStarted + 1

\* The handler of request p is entered and suspends at its first query.
Enter(p, request, at) ==
    /\ op' = [op EXCEPT ![p] = request]
    /\ pc' = [pc EXCEPT ![p] = at]
    /\ UNCHANGED <<local, response>>

\* A request is answered before its handler ever suspends.
Answer(request, res) ==
    /\ response' = [op |-> request, result |-> res]
    /\ UNCHANGED <<pc, op, local>>

\* The running request p is answered; its locals go.
Finish(p, res) ==
    /\ response' = [op |-> NoOp, result |-> res]
    /\ pc' = [pc EXCEPT ![p] = "idle"]
    /\ op' = [op EXCEPT ![p] = NoOp]
    /\ local' = [local EXCEPT ![p] = NoLocal]
\* (mutant) the catch block rethrows without rolling back: the locks of the
\* open transaction stay.
Rollback_LocksKept(p, exception, message) ==
    /\ rowLocks' = rowLocks
    /\ wbuf' = [wbuf EXCEPT ![p] = NoWrites]
    /\ Finish(p, Thrown(exception, message))

\* The catch block of a handler: rollbackTransaction(), release(), rethrow.
Rollback(p, exception, message) ==
    /\ rowLocks' = ReleaseLocks(p)
    /\ wbuf' = [wbuf EXCEPT ![p] = NoWrites]
    /\ Finish(p, Thrown(exception, message))

\* commitTransaction(), release(), return.
Commit(p, res) ==
    /\ balance' = CommittedBalance(p)
    /\ entries' = CommittedEntries(p)
    /\ rowLocks' = ReleaseLocks(p)
    /\ wbuf' = [wbuf EXCEPT ![p] = NoWrites]
    /\ Finish(p, res)

(* ------------------------------ transfer ------------------------------ *)

\* (mutant) the threshold is mistyped.
IsBelowMinimumTransfer_Lower(amount) ==
    amount < 50

IsBelowMinimumTransfer(amount) ==
    amount < MinTransfer

\* (mutant) the balance check is dropped.
InsufficientBalance_Off(senderBalance, amount) ==
    FALSE

InsufficientBalance(senderBalance, amount) ==
    senderBalance < amount

Debit(senderBalance, amount) ==
    senderBalance - amount

Credit(recipientBalance, amount) ==
    recipientBalance + amount

\* transfer(), lines 285-299: validate the amount, then startTransaction().
TransferStart(p, user, wallet_number, amount) ==
    /\ Issue(p)
    /\ IF IsBelowMinimumTransfer(amount)
       THEN Answer(TransferOp(user, wallet_number, amount),
                   Thrown("BadRequestException", "Minimum transfer amount is N100"))
       ELSE Enter(p, TransferOp(user, wallet_number, amount), "t_sender")
    /\ UNCHANGED <<balance, entries, rowLocks, wbuf, nextRef, creditedTotal, credits>>

\* lines 302-310: the sender's wallet, locked for write.
TransferFindSender(p) ==
    /\ pc[p] = "t_sender"
    /\ LET w == FindWalletByUser(op[p].user) IN
       IF w = NoWallet
       THEN Rollback(p, "NotFoundException", "Sender wallet not found")
       ELSE /\ LockFree(p, "wallet", w)
            /\ rowLocks' = rowLocks \cup {<<"wallet", w, p>>}
            /\ local' = [local EXCEPT ![p].senderId = w,
                                      ![p].senderBalance = balance[w]]
            /\ pc' = [pc EXCEPT ![p] = "t_recipient"]
            /\ UNCHANGED <<op, wbuf, response>>
    /\ UNCHANGED <<balance, entries, nextRef, opsStarted, creditedTotal, credits>>

\* lines 312-320: the recipient's wallet, locked for write.
TransferFindRecipient(p) ==
    /\ pc[p] = "t_recipient"
    /\ LET w == FindWalletByNumber(op[p].wallet_number) IN
       IF w = NoWallet
       THEN Rollback(p, "NotFoundException", "Recipient wallet not found")
       ELSE /\ LockFree(p, "wallet", w)
            /\ rowLocks' = rowLocks \cup {<<"wallet", w, p>>}
            /\ local' = [local EXCEPT ![p].recipientId = w,
                                      ![p].recipientBalance = balance[w]]
            /\ pc' = [pc EXCEPT ![p] = "t_debit"]
            /\ UNCHANGED <<op, wbuf, response>>
    /\ UNCHANGED <<balance, entries, nextRef, opsStarted, creditedTotal, credits>>

\* (mutant) the sender's balance is saved through the repository, outside
\* the transaction: the debit is committed at once.
TransferDebit_Autocommit(p) ==
    /\ pc[p] = "t_debit"
    /\ IF local[p].senderId = local[p].recipientId
       THEN /\ Rollback(p, "BadRequestException", "Cannot transfer to yourself")
            /\ UNCHANGED balance
       ELSE IF InsufficientBalance(local[p].senderBalance, op[p].amount)
       THEN /\ Rollback(p, "BadRequestException", "Insufficient balance")
            /\ UNCHANGED balance
       ELSE /\ balance' = [balance EXCEPT ![local[p].senderId] =
                   Debit(local[p].senderBalance, op[p].amount)]
            /\ pc' = [pc EXCEPT ![p] = "t_credit"]
            /\ UNCHANGED <<rowLocks, op, local, wbuf, response>>
    /\ UNCHANGED <<entries, nextRef, opsStarted, creditedTotal, credits>>

\* lines 322-334: the two checks, then the sender's new balance is saved.
TransferDebit(p) ==
    /\ pc[p] = "t_debit"
    /\ IF local[p].senderId = local[p].recipientId
       THEN Rollback(p, "BadRequestException", "Cannot transfer to yourself")
       ELSE IF InsufficientBalance(local[p].senderBalance, op[p].amount)
       THEN Rollback(p, "BadRequestException", "Insufficient balance")
       ELSE /\ wbuf' = [wbuf EXCEPT ![p].balance =
                   (local[p].senderId :>
                        Debit(local[p].senderBalance, op[p].amount)) @@ @]
            /\ pc' = [pc EXCEPT ![p] = "t_credit"]
            /\ UNCHANGED <<rowLocks, op, local, response>>
    /\ UNCHANGED <<balance, entries, nextRef, opsStarted, creditedTotal, credits>>

\* lines 336-338: the recipient's new balance is saved.
TransferCredit(p) ==
    /\ pc[p] = "t_credit"
    /\ wbuf' = [wbuf EXCEPT ![p].balance =
           (local[p].recipientId :>
                Credit(local[p].recipientBalance, op[p].amount)) @@ @]
    /\ pc' = [pc EXCEPT ![p] = "t_entries"]
    /\ UNCHANGED <<balance, entries, rowLocks, op, local, response, nextRef,
                   opsStarted, creditedTotal, credits>>

\* The two rows transfer() creates; neither is given a reference.
SenderTransaction(p) ==
    [walletId |-> local[p].senderId, type |-> "transfer_out",
     amount |-> op[p].amount, status |-> "success", reference |-> NoRef,
     recipientWalletNumber |-> WalletNumber(local[p].recipientId),
     senderWalletNumber |-> "",
     metadata |-> {"transfer_type", "recipient_wallet", "initiated_by"}]

RecipientTransaction(p) ==
    [walletId |-> local[p].recipientId, type |-> "transfer_in",
     amount |-> op[p].amount, status |-> "success", reference |-> NoRef,
     recipientWalletNumber |-> "",
     senderWalletNumber |-> WalletNumber(local[p].senderId),
     metadata |-> {"transfer_type", "sender_wallet", "sender_email"}]
\* (mutant) only the sender's row is saved.
TransferSaveEntries_SenderOnly(p) ==
    /\ pc[p] = "t_entries"
    /\ wbuf' = [wbuf EXCEPT ![p].inserts = <<SenderTransaction(p)>>]
    /\ pc' = [pc EXCEPT ![p] = "t_commit"]
    /\ UNCHANGED <<balance, entries, rowLocks, op, local, response, nextRef,
                   opsStarted, creditedTotal, credits>>

\* lines 340-373: the two transaction rows are saved.
TransferSaveEntries(p) ==
    /\ pc[p] = "t_entries"
    /\ wbuf' = [wbuf EXCEPT ![p].inserts =
           <<SenderTransaction(p), RecipientTransaction(p)>>]
    /\ pc' = [pc EXCEPT ![p] = "t_commit"]
    /\ UNCHANGED <<balance, entries, rowLocks, op, local, response, nextRef,
                   opsStarted, creditedTotal, credits>>

\* lines 375-382: commitTransaction(), release(), return.
TransferCommit(p) ==
    /\ pc[p] = "t_commit"
    /\ Commit(p, [Returned EXCEPT !.status = "success"])
    /\ UNCHANGED <<nextRef, opsStarted, creditedTotal, credits>>

(* --------------------------- initiateDeposit -------------------------- *)
\* (mutant) the threshold is mistyped.
IsBelowMinimumDeposit_Lower(amount) ==
    amount < 50

IsBelowMinimumDeposit(amount) ==
    amount < MinDeposit

\* generateReference(): a reference no transaction carries yet.
GenerateReference ==
    nextRef

\* The pending row initiateDeposit() creates (lines 59-65).
DepositTransaction(w, amount, reference) ==
    [walletId |-> w, type |-> "deposit", amount |-> amount,
     status |-> "pending", reference |-> reference,
     recipientWalletNumber |-> "", senderWalletNumber |-> "",
     metadata |-> {}]
\* (mutant) the pending row is not saved before the gateway is called.
DepositStart_NotSaved(p, user, amount) ==
    /\ Issue(p)
    /\ LET w == FindWalletByUser(user) IN
       IF w = NoWallet
       THEN /\ Answer(DepositOp(user, amount, NoRef),
                      Thrown("NotFoundException", "Wallet not found"))
            /\ UNCHANGED <<entries, nextRef, credits>>
       ELSE IF IsBelowMinimumDeposit(amount)
       THEN /\ Answer(DepositOp(user, amount, NoRef),
                      Thrown("BadRequestException", "Minimum deposit amount is N100"))
            /\ UNCHANGED <<entries, nextRef, credits>>
       ELSE /\ Enter(p, DepositOp(user, amount, GenerateReference), "d_gateway")
            /\ nextRef' = nextRef + 1
            /\ UNCHANGED <<entries, credits>>
    /\ UNCHANGED <<balance, rowLocks, wbuf, creditedTotal>>

\* initiateDeposit(), lines 34-67: the wallet, the minimum, then the pending
\* row is saved through the repository, outside any transaction.
DepositStart(p, user, amount) ==
    /\ Issue(p)
    /\ LET w == FindWalletByUser(user) IN
       IF w = NoWallet
       THEN /\ Answer(DepositOp(user, amount, NoRef),
                      Thrown("NotFoundException", "Wallet not found"))
            /\ UNCHANGED <<entries, nextRef, credits>>
       ELSE IF IsBelowMinimumDeposit(amount)
       THEN /\ Answer(DepositOp(user, amount, NoRef),
                      Thrown("BadRequestException", "Minimum deposit amount is N100"))
            /\ UNCHANGED <<entries, nextRef, credits>>
       ELSE /\ Enter(p, DepositOp(user, amount, GenerateReference), "d_gateway")
            /\ entries' = Append(entries,
                   DepositTransaction(w, amount, GenerateReference))
            /\ nextRef' = nextRef + 1
            /\ credits' = Append(credits, 0)
    /\ UNCHANGED <<balance, rowLocks, wbuf, creditedTotal>>

\* lines 72-83 and PaystackService.initializeTransaction: the gateway
\* answers, or the call throws and the error goes to the caller.
DepositGateway(p) ==
    /\ pc[p] = "d_gateway"
    /\ \/ Finish(p, [Returned EXCEPT !.reference = op[p].reference])
       \/ Finish(p, Thrown("AxiosError", "Paystack initialization failed"))
    /\ UNCHANGED <<balance, entries, rowLocks, wbuf, nextRef, opsStarted,
                   creditedTotal, credits>>

(* ------------------------------- webhook ------------------------------ *)

PaystackSecretKey ==
    "PAYSTACK_SECRET_KEY"

\* crypto.createHmac('sha512', key).update(payload).digest('hex')
Hmac(key, payload) ==
    <<"sha512", key, payload>>

NoSignature ==
    <<>>
\* (mutant) any signature that is present is accepted.
VerifyWebhookSignature_Present(payload, signature) ==
    signature # NoSignature

\* PaystackService.verifyWebhookSignature
VerifyWebhookSignature(payload, signature) ==
    IF signature = NoSignature
    THEN FALSE
    ELSE Hmac(PaystackSecretKey, payload) = signature

\* The gateway signs what it sends with the shared secret.
Signed(event, reference, amount) ==
    <<event, reference, amount,
      Hmac(PaystackSecretKey, <<event, reference, amount>>)>>

\* Credit wallet (convert from kobo to naira), line 154.
AmountInNaira(amount) ==
    amount \div KoboPerNaira

\* (mutant) the idempotency check is dropped.
AlreadySuccess_Never(status) ==
    FALSE

AlreadySuccess(status) ==
    status = "success"

AlreadyFailed(status) ==
    status = "failed"
\* (mutant) every event that is not charge.failed is handled as a success.
WebhookStart_SuccessByDefault(p, event, reference, amount, signature) ==
    /\ Issue(p)
    /\ LET request == WebhookOp(event, reference, amount, signature) IN
       IF signature = NoSignature
       THEN Answer(request,
                   Thrown("BadRequestException", "Missing Paystack signature"))
       ELSE IF ~VerifyWebhookSignature(<<event, reference, amount>>, signature)
       THEN Answer(request,
                   Thrown("BadRequestException", "Invalid Paystack signature"))
       ELSE IF event = "charge.failed"
       THEN Enter(p, request, "f_find")
       ELSE Enter(p, request, "s_find")
    /\ UNCHANGED <<balance, entries, rowLocks, wbuf, nextRef, creditedTotal, credits>>

\* WalletController.paystackWebhook and handlePaystackWebhook: the signature
\* is verified, then the event is dispatched; a handler opens a transaction.
WebhookStart(p, event, reference, amount, signature) ==
    /\ Issue(p)
    /\ LET request == WebhookOp(event, reference, amount, signature) IN
       IF signature = NoSignature
       THEN Answer(request,
                   Thrown("BadRequestException", "Missing Paystack signature"))
       ELSE IF ~VerifyWebhookSignature(<<event, reference, amount>>, signature)
       THEN Answer(request,
                   Thrown("BadRequestException", "Invalid Paystack signature"))
       ELSE IF event = "charge.success"
       THEN Enter(p, request, "s_find")
       ELSE IF event = "charge.failed"
       THEN Enter(p, request, "f_find")
       ELSE Answer(request, Returned)
    /\ UNCHANGED <<balance, entries, rowLocks, wbuf, nextRef, creditedTotal, credits>>
\* (mutant) an unknown reference is logged and the event acknowledged.
SuccessFind_Acknowledge(p) ==
    /\ pc[p] = "s_find"
    /\ LET i == FindTransaction(op[p].reference) IN
       IF i = 0
       THEN /\ rowLocks' = ReleaseLocks(p)
            /\ wbuf' = [wbuf EXCEPT ![p] = NoWrites]
            /\ Finish(p, Returned)
       ELSE /\ local' = [local EXCEPT ![p].txnId = i,
                             ![p].txnStatus = entries[i].status,
                             ![p].txnMetadata = entries[i].metadata,
                             ![p].walletId = entries[i].walletId,
                             ![p].walletBalance = balance[entries[i].walletId]]
            /\ pc' = [pc EXCEPT ![p] =
                   IF AlreadySuccess(entries[i].status)
                   THEN "s_noop" ELSE "s_saveTxn"]
            /\ UNCHANGED <<rowLocks, op, wbuf, response>>
    /\ UNCHANGED <<balance, entries, nextRef, opsStarted, creditedTotal, credits>>

\* handleSuccessfulCharge, lines 116-138: the transaction and its wallet are
\* read by one plain SELECT (no lock option), then the status is examined.
SuccessFind(p) ==
    /\ pc[p] = "s_find"
    /\ LET i == FindTransaction(op[p].reference) IN
       IF i = 0
       THEN Rollback(p, "NotFoundException",
                     "Transaction with reference not found")
       ELSE /\ local' = [local EXCEPT ![p].txnId = i,
                             ![p].txnStatus = entries[i].status,
                             ![p].txnMetadata = entries[i].metadata,
                             ![p].walletId = entries[i].walletId,
                             ![p].walletBalance = balance[entries[i].walletId]]
            /\ pc' = [pc EXCEPT ![p] =
                   IF AlreadySuccess(entries[i].status)
                   THEN "s_noop" ELSE "s_saveTxn"]
            /\ UNCHANGED <<rowLocks, op, wbuf, response>>
    /\ UNCHANGED <<balance, entries, nextRef, opsStarted, creditedTotal, credits>>

\* lines 128-133: the entry is already success; the empty transaction is
\* committed and the handler returns.
SuccessNoop(p) ==
    /\ pc[p] = "s_noop"
    /\ Commit(p, Returned)
    /\ UNCHANGED <<nextRef, opsStarted, creditedTotal, credits>>
\* (mutant) the entry is saved through the repository, outside the
\* transaction: the status change is committed at once.
SuccessSaveTransaction_Autocommit(p) ==
    /\ pc[p] = "s_saveTxn"
    /\ LockFree(p, "txn", local[p].txnId)
    /\ entries' = [entries EXCEPT
           ![local[p].txnId].status = "success",
           ![local[p].txnId].metadata = local[p].txnMetadata \cup
               {"webhook_received", "success_time", "paystack_response"}]
    /\ pc' = [pc EXCEPT ![p] = "s_saveWallet"]
    /\ UNCHANGED <<balance, rowLocks, op, local, wbuf, response, nextRef,
                   opsStarted, creditedTotal, credits>>

\* lines 140-150: status and metadata are saved (an UPDATE of the row).
SuccessSaveTransaction(p) ==
    /\ pc[p] = "s_saveTxn"
    /\ LockFree(p, "txn", local[p].txnId)
    /\ rowLocks' = rowLocks \cup {<<"txn", local[p].txnId, p>>}
    /\ wbuf' = [wbuf EXCEPT ![p].txn =
           (local[p].txnId :>
                [status |-> "success",
                 metadata |-> local[p].txnMetadata \cup
                     {"webhook_received", "success_time", "paystack_response"}])
           @@ @]
    /\ pc' = [pc EXCEPT ![p] = "s_saveWallet"]
    /\ UNCHANGED <<balance, entries, op, local, response, nextRef, opsStarted,
                   creditedTotal, credits>>

\* lines 152-156: the balance read at lookup plus the credit is saved (an
\* UPDATE of the wallet row).
SuccessSaveWallet(p) ==
    /\ pc[p] = "s_saveWallet"
    /\ LockFree(p, "wallet", local[p].walletId)
    /\ rowLocks' = rowLocks \cup {<<"wallet", local[p].walletId, p>>}
    /\ wbuf' = [wbuf EXCEPT ![p].balance =
           (local[p].walletId :>
                local[p].walletBalance + AmountInNaira(op[p].amount)) @@ @]
    /\ pc' = [pc EXCEPT ![p] = "s_commit"]
    /\ UNCHANGED <<balance, entries, op, local, response, nextRef, opsStarted,
                   creditedTotal, credits>>

\* line 162: commitTransaction().
SuccessCommit(p) ==
    /\ pc[p] = "s_commit"
    /\ Commit(p, Returned)
    /\ creditedTotal' = creditedTotal + AmountInNaira(op[p].amount)
    /\ credits' = [credits EXCEPT ![op[p].reference] =
           IF CommittedBalance(p)[local[p].walletId]
                  = balance[local[p].walletId] + AmountInNaira(op[p].amount)
           THEN @ + 1 ELSE @]
    /\ UNCHANGED <<nextRef, opsStarted>>

\* handleFailedCharge, lines 183-199: the transaction is read (plain SELECT),
\* then the status is examined.
FailedFind(p) ==
    /\ pc[p] = "f_find"
    /\ LET i == FindTransaction(op[p].reference) IN
       IF i = 0
       THEN Rollback(p, "NotFoundException",
                     "Transaction with reference not found")
       ELSE /\ local' = [local EXCEPT ![p].txnId = i,
                             ![p].txnStatus = entries[i].status,
                             ![p].txnMetadata = entries[i].metadata]
            /\ pc' = [pc EXCEPT ![p] =
                   IF AlreadyFailed(entries[i].status)
                   THEN "f_noop" ELSE "f_saveTxn"]
            /\ UNCHANGED <<rowLocks, op, wbuf, response>>
    /\ UNCHANGED <<balance, entries, nextRef, opsStarted, creditedTotal, credits>>

\* lines 194-199: the entry is already failed; the empty transaction is
\* committed and the handler returns.
FailedNoop(p) ==
    /\ pc[p] = "f_noop"
    /\ Commit(p, Returned)
    /\ UNCHANGED <<nextRef, opsStarted, creditedTotal, credits>>
\* (mutant) marking the entry failed also takes the deposit's amount back
\* from the wallet.
FailedSaveTransaction_Reversal(p) ==
    /\ pc[p] = "f_saveTxn"
    /\ LockFree(p, "txn", local[p].txnId)
    /\ rowLocks' = rowLocks \cup {<<"txn", local[p].txnId, p>>}
    /\ wbuf' = [wbuf EXCEPT
           ![p].txn = (local[p].txnId :>
                [status |-> "failed",
                 metadata |-> local[p].txnMetadata \cup
                     {"failure_reason", "failure_time", "webhook_received"}])
                @@ @,
           ![p].balance = (entries[local[p].txnId].walletId :>
                balance[entries[local[p].txnId].walletId]
                    - entries[local[p].txnId].amount) @@ @]
    /\ pc' = [pc EXCEPT ![p] = "f_commit"]
    /\ UNCHANGED <<balance, entries, op, local, response, nextRef, opsStarted,
                   creditedTotal, credits>>

\* lines 201-211: status and metadata are saved (an UPDATE of the row).
FailedSaveTransaction(p) ==
    /\ pc[p] = "f_saveTxn"
    /\ LockFree(p, "txn", local[p].txnId)
    /\ rowLocks' = rowLocks \cup {<<"txn", local[p].txnId, p>>}
    /\ wbuf' = [wbuf EXCEPT ![p].txn =
           (local[p].txnId :>
                [status |-> "failed",
                 metadata |-> local[p].txnMetadata \cup
                     {"failure_reason", "failure_time", "webhook_received"}])
           @@ @]
    /\ pc' = [pc EXCEPT ![p] = "f_commit"]
    /\ UNCHANGED <<balance, entries, op, local, response, nextRef, opsStarted,
                   creditedTotal, credits>>

\* line 215: commitTransaction().
FailedCommit(p) ==
    /\ pc[p] = "f_commit"
    /\ Commit(p, Returned)
    /\ UNCHANGED <<nextRef, opsStarted, creditedTotal, credits>>

(* --------------------------- getDepositStatus ------------------------- *)

\* (mutant) the ownership check is dropped.
NotOwner_Unchecked(walletUserId, userId) ==
    FALSE

NotOwner(walletUserId, userId) ==
    walletUserId # userId

\* getDepositStatus(), lines 226-264: one read of the committed row.
GetDepositStatus(p, user, reference) ==
    /\ Issue(p)
    /\ LET i == FindTransaction(reference) IN
       Answer(StatusOp(user, reference),
           IF i = 0
           THEN Thrown("NotFoundException", "Transaction not found")
           ELSE IF NotOwner(WalletUserId(entries[i].walletId), user)
           THEN Thrown("BadRequestException", "Unauthorized access to transaction")
           ELSE [Returned EXCEPT !.reference = entries[i].reference,
                                 !.status = entries[i].status,
                                 !.amount = entries[i].amount,
                                 !.metadata = entries[i].metadata])
    /\ UNCHANGED <<balance, entries, rowLocks, wbuf, nextRef, creditedTotal, credits>>

(* ---------------------------- store failures -------------------------- *)

InTransaction ==
    {"t_sender", "t_recipient", "t_debit", "t_credit", "t_entries", "t_commit",
     "s_find", "s_noop", "s_saveTxn", "s_saveWallet", "s_commit",
     "f_find", "f_noop", "f_saveTxn", "f_commit"}

\* The row the request's next query needs the lock of: <<table, id>>, or <<>>.
NeededRow(p) ==
    CASE pc[p] = "t_sender" /\ FindWalletByUser(op[p].user) # NoWallet ->
             <<"wallet", FindWalletByUser(op[p].user)>>
      [] pc[p] = "t_recipient" /\ FindWalletByNumber(op[p].wallet_number) # NoWallet ->
             <<"wallet", FindWalletByNumber(op[p].wallet_number)>>
      [] pc[p] \in {"s_saveTxn", "f_saveTxn"} -> <<"txn", local[p].txnId>>
      [] pc[p] = "s_saveWallet" -> <<"wallet", local[p].walletId>>
      [] OTHER -> <<>>

\* p waits for a lock q holds.
WaitsFor(p, q) ==
    /\ p # q
    /\ NeededRow(p) # <<>>
    /\ <<NeededRow(p)[1], NeededRow(p)[2], q>> \in rowLocks

\* Two transactions each wait for a row lock the other holds.
Deadlocked(p) ==
    \E q \in Procs : WaitsFor(p, q) /\ WaitsFor(q, p)

\* Any awaited query of a handler's try block may reject; the catch block
\* (lines 164-170, 217-223, 383-389) rolls back and rethrows.
QueryFails(p) ==
    /\ pc[p] \in InTransaction
    /\ Rollback(p, "QueryFailedError", "query failed")
    /\ UNCHANGED <<balance, entries, nextRef, opsStarted, creditedTotal, credits>>

\* PostgreSQL ends a lock cycle by failing one waiting query ("deadlock
\* detected"); the catch block rolls that transaction back.
DeadlockDetected(p) ==
    /\ Deadlocked(p)
    /\ Rollback(p, "QueryFailedError", "deadlock detected")
    /\ UNCHANGED <<balance, entries, nextRef, opsStarted, creditedTotal, credits>>

(* ------------------------------ requests ------------------------------ *)

\* transfer requests: both directions between the two wallets, to oneself, to
\* a wallet number nobody has, from a user without wallet; and two with an
\* amount below the minimum.
TransferInputs ==
    {<<"u1", "W2", 100>>, <<"u2", "W1", 100>>, <<"u1", "W1", 100>>,
     <<"u1", "W9", 100>>, <<"u3", "W1", 100>>, <<"u3", "W9", 100>>,
     <<"u1", "W2", 50>>, <<"u3", "W9", 50>>}

DepositInputs ==
    {<<"u1", 100>>, <<"u2", 100>>, <<"u1", 50>>, <<"u3", 100>>, <<"u3", 50>>}

\* Notifications: the gateway's own (signed) for every reference in use and
\* the next one, an event of another kind, and an unsigned and a forged one.
WebhookInputs ==
    {Signed("charge.success", r, a) : r \in 1..nextRef, a \in KoboAmounts}
    \cup {Signed("charge.failed", r, 10000) : r \in 1..nextRef}
    \cup {Signed("transfer.success", 1, 10000),
          <<"charge.success", 2, 10000, NoSignature>>,
          <<"charge.success", 2, 10000,
            Hmac("guess", <<"charge.success", 2, 10000>>)>>}

\* status requests: by the owner of deposit 1 and by another user, for
\* deposit 1 and for a reference no transaction carries.
StatusInputs ==
    {"u1", "u2"} \X {1, nextRef}

Next ==
    \E p \in Procs :
        \/ \E i \in TransferInputs : TransferStart(p, i[1], i[2], i[3])
        \/ TransferFindSender(p)
        \/ TransferFindRecipient(p)
        \/ TransferDebit(p)
        \/ TransferCredit(p)
        \/ TransferSaveEntries(p)
        \/ TransferCommit(p)
        \/ \E i \in DepositInputs : DepositStart(p, i[1], i[2])
        \/ DepositGateway(p)
        \/ \E i \in WebhookInputs : WebhookStart(p, i[1], i[2], i[3], i[4])
        \/ SuccessFind(p)
        \/ SuccessNoop(p)
        \/ SuccessSaveTransaction(p)
        \/ SuccessSaveWallet(p)
        \/ SuccessCommit(p)
        \/ FailedFind(p)
        \/ FailedNoop(p)
        \/ FailedSaveTransaction(p)
        \/ FailedCommit(p)
        \/ \E i \in StatusInputs : GetDepositStatus(p, i[1], i[2])
        \/ QueryFails(p)
        \/ DeadlockDetected(p)

Spec ==
    Init /\ [][Next]_vars

(* ------------------------------- claims ------------------------------- *)

RECURSIVE SumOver(_)
SumOver(S) ==
    IF S = {} THEN 0
    ELSE LET w == CHOOSE x \in S : TRUE IN balance[w] + SumOver(S \ {w})

\* The money in all wallets.
TotalBalance ==
    SumOver(WalletIds)

InitialTotal ==
    InitialBalance[1] + InitialBalance[2]

\* Request p commits its transfer in this step.
TransferCommits(p) ==
    /\ pc[p] = "t_commit"
    /\ pc'[p] = "idle"
    /\ response'.result.exception = "none"

\* C1: a transfer that completes debits the sender's committed balance by
\* exactly the amount and credits the recipient's by the same amount, so the
\* two balances sum to the same before and after, whatever runs concurrently.
TransferConserves ==
    [][\A p \in Procs :
          TransferCommits(p) =>
              LET s == local[p].senderId
                  r == local[p].recipientId
              IN  /\ balance'[s] = balance[s] - op[p].amount
                  /\ balance'[r] = balance[r] + op[p].amount
                  /\ balance[s] + balance[r] = balance'[s] + balance'[r]]_vars

\* A transfer has completed while the other request slot was busy.
TransferCompleted ==
    /\ \E i \in 1..Len(entries) : entries[i].type = "transfer_in"
    /\ response.result.status = "success"
    /\ \E q \in Procs : pc[q] # "idle"

\* C2: in every committed state every wallet's balance is >= 0.
NoNegativeBalance ==
    \A w \in WalletIds : balance[w] >= 0

\* A transfer has taken the sender's whole balance.
SenderDrained ==
    /\ balance[1] = 0
    /\ \E i \in 1..Len(entries) :
           entries[i].type = "transfer_out" /\ entries[i].walletId = 1

\* C3: the sum of all balances is the initial sum plus the credits of the
\* committed charge-succeeded processings: no debit or credit is lost.
MoneyConserved ==
    TotalBalance = InitialTotal + creditedTotal

\* The committed status of the transaction a running webhook names ("" if none).
CommittedStatus(p) ==
    IF FindTransaction(op[p].reference) = 0 THEN ""
    ELSE entries[FindTransaction(op[p].reference)].status

\* C4: a charge-succeeded processing that finds its entry already success
\* takes the no-op path: it writes nothing, its commit changes no balance, no
\* entry and no credit, and it returns success.
RepeatedSuccessIsNoop ==
    [][\A p \in Procs :
          /\ (pc[p] = "s_find" /\ pc'[p] # "s_find" /\ CommittedStatus(p) = "success")
                 => \/ pc'[p] = "s_noop"
                    \/ response'.result.exception = "QueryFailedError"
          /\ (pc[p] = "s_noop" /\ pc'[p] # "s_noop")
                 => /\ balance' = balance
                    /\ entries' = entries
                    /\ creditedTotal' = creditedTotal
                    /\ credits' = credits
                    /\ response'.result \in
                           {Returned, Thrown("QueryFailedError", "query failed")}]_vars

\* Deposit 2 was credited by a first delivery and the same event, delivered
\* again, has found it success: the wallet holds one credit.
SecondDeliveryFoundSuccess ==
    \E p \in Procs :
        /\ pc[p] = "s_noop"
        /\ op[p].reference = 2
        /\ entries[2].status = "success"
        /\ credits[2] = 1
        /\ balance[1] = InitialBalance[1] + AmountInNaira(op[p].amount)

\* C5: whatever sequence of charge-succeeded and charge-failed events is
\* delivered for one reference, its wallet is credited for it at most once.
CreditedAtMostOnce ==
    \A r \in 1..Len(credits) : credits[r] <= 1

\* C6: two concurrent mirror-image transfers never wait for each other's
\* wallet lock.
MirrorTransfersNeverDeadlock ==
    \A p, q \in Procs :
        (op[p].kind = "transfer" /\ op[q].kind = "transfer")
            => ~(WaitsFor(p, q) /\ WaitsFor(q, p))

\* The transaction a status request names belongs to another user.
ForeignReference ==
    /\ response.op.kind = "status"
    /\ FindTransaction(response.op.reference) # 0
    /\ WalletUserId(entries[FindTransaction(response.op.reference)].walletId)
           # response.op.user

\* C7: a status request for another user's reference fails and carries none
\* of the entry's data; entry data is returned only to the wallet's owner.
StatusOnlyToOwner ==
    /\ ForeignReference =>
           /\ response.result.exception # "none"
           /\ response.result.status = ""
           /\ response.result.amount = 0
           /\ response.result.metadata = {}
    /\ (response.op.kind = "status" /\ response.result.exception = "none") =>
           /\ FindTransaction(response.op.reference) # 0
           /\ ~ForeignReference

\* u2 has asked for the status of u1's deposit 1 and was refused.
ForeignStatusRefused ==
    /\ ForeignReference
    /\ response.op.user = "u2"
    /\ response.op.reference = 1
    /\ response.result.exception = "BadRequestException"

\* C8: a status request for another user's reference gets the very answer a
\* request for a reference that does not exist gets.
StatusHidesExistence ==
    ForeignReference =>
        response.result = Thrown("NotFoundException", "Transaction not found")

\* C9: every step of a transfer either leaves the committed balances and
\* entries as they are, or is its commit, which applies the debit, the credit
\* and the two entries together.
TransferAtomic ==
    [][\A p \in Procs :
          (op[p].kind = "transfer" /\ pc'[p] # pc[p]) =>
              \/ /\ balance' = balance
                 /\ entries' = entries
              \/ /\ TransferCommits(p)
                 /\ balance' = [balance EXCEPT
                        ![local[p].senderId] = @ - op[p].amount,
                        ![local[p].recipientId] = @ + op[p].amount]
                 /\ entries' = entries \o
                        <<SenderTransaction(p), RecipientTransaction(p)>>]_vars

\* A transfer has saved its debit and not committed: the committed balances
\* are untouched while another request runs.
TransferHalfWritten ==
    \E p, q \in Procs :
        /\ p # q
        /\ pc[p] = "t_credit"
        /\ local[p].senderId \in DOMAIN wbuf[p].balance
        /\ balance[local[p].senderId] = local[p].senderBalance
        /\ pc[q] # "idle"

\* C10: a transfer request with an amount below the minimum is answered by
\* the minimum-amount error before any transaction is opened or lock taken,
\* and changes no balance and no entry.
SmallTransferRejected ==
    [][/\ (opsStarted' # opsStarted /\ pc' = pc /\ response'.op.kind = "transfer"
             /\ response'.op.amount < MinTransfer)
          => /\ response'.result =
                    Thrown("BadRequestException", "Minimum transfer amount is N100")
             /\ UNCHANGED <<balance, entries, rowLocks, wbuf>>
       /\ \A p \in Procs :
             (pc'[p] # pc[p] /\ op'[p].kind = "transfer")
                 => op'[p].amount >= MinTransfer]_vars

\* A transfer of 50 was refused while another request held its transaction.
SmallTransferRefused ==
    /\ response.op.kind = "transfer"
    /\ response.op.amount = 50
    /\ response.result.message = "Minimum transfer amount is N100"
    /\ \E q \in Procs : pc[q] # "idle"

\* C11: the commit of a transfer appends exactly two entries, both success and
\* both for the transfer amount: a transfer_out on the sender's wallet carrying
\* the recipient's wallet number, then a transfer_in on the recipient's wallet
\* carrying the sender's wallet number; every other step of a transfer, its
\* refusal and its rollback included, leaves the entries as they are.
TransferWritesTwoEntries ==
    [][/\ \A p \in Procs :
             (op[p].kind = "transfer" /\ pc'[p] # pc[p]) =>
                 IF TransferCommits(p)
                 THEN LET n == Len(entries)
                          s == FindWalletByUser(op[p].user)
                          r == FindWalletByNumber(op[p].wallet_number)
                      IN  /\ Len(entries') = n + 2
                          /\ SubSeq(entries', 1, n) = entries
                          /\ entries'[n + 1].type = "transfer_out"
                          /\ entries'[n + 1].walletId = s
                          /\ entries'[n + 1].recipientWalletNumber = WalletNumber(r)
                          /\ entries'[n + 2].type = "transfer_in"
                          /\ entries'[n + 2].walletId = r
                          /\ entries'[n + 2].senderWalletNumber = WalletNumber(s)
                          /\ \A k \in {n + 1, n + 2} :
                                 /\ entries'[k].status = "success"
                                 /\ entries'[k].amount = op[p].amount
                 ELSE entries' = entries
       /\ (opsStarted' # opsStarted /\ pc' = pc /\ response'.op.kind = "transfer")
             => entries' = entries]_vars

\* A transfer of 100 from wallet 1 to wallet 2 has committed its two entries.
TransferEntriesWritten ==
    /\ Len(entries) = Len(InitialEntries) + 2
    /\ entries[Len(entries) - 1].type = "transfer_out"
    /\ entries[Len(entries)].type = "transfer_in"
    /\ entries[Len(entries)].senderWalletNumber = "W1"
    /\ response.result.status = "success"
    /\ balance[2] = 100

\* Request p commits its charge.success processing in this step.
SuccessCommits(p) ==
    /\ pc[p] = "s_commit"
    /\ pc'[p] = "idle"
    /\ response'.result.exception = "none"

\* C12: a charge.success processing whose entry is pending sets the entry to
\* success and raises the committed balance of the entry's wallet by exactly
\* the notified amount / 100, and changes no other wallet.
PendingSuccessCredits ==
    [][\A p \in Procs :
          (SuccessCommits(p) /\ entries[local[p].txnId].status = "pending") =>
              LET w == entries[local[p].txnId].walletId IN
              /\ entries'[local[p].txnId].status = "success"
              /\ balance'[w] = balance[w] + (op[p].amount \div KoboPerNaira)
              /\ \A v \in WalletIds \ {w} : balance'[v] = balance[v]]_vars

\* The positions of a charge.success processing that has found its entry not
\* yet success and goes on to write the credit.
CreditPath ==
    {"s_saveTxn", "s_saveWallet", "s_commit"}

\* C13: two concurrent charge.success deliveries for one reference are
\* serialized at the lookup: never have both found the entry not yet success,
\* so never are both on their way to write the credit.
ConcurrentDeliveriesSerialized ==
    \A p, q \in Procs :
        (p # q /\ op[p].event = "charge.success" /\ op[q].event = "charge.success"
             /\ op[p].reference = op[q].reference)
            => ~(pc[p] \in CreditPath /\ pc[q] \in CreditPath)

\* The status changes an entry may undergo.
AllowedStatusChanges ==
    {<<"pending", "success">>, <<"pending", "failed">>, <<"failed", "success">>}

\* C14: an entry's status changes only pending -> success, pending -> failed
\* or failed -> success: none returns to pending, and success is final.
StatusMonotone ==
    [][\A i \in 1..Len(entries) :
          entries'[i].status # entries[i].status
              => <<entries[i].status, entries'[i].status>> \in AllowedStatusChanges]_vars

\* C15: a charge.success processing that finds its entry failed is not
\* rejected but goes on as for a pending entry, and its commit sets the entry
\* to success and raises the committed balance of the entry's wallet by
\* exactly the notified amount / 100.
FailedRecoveredBySuccess ==
    [][\A p \in Procs :
          /\ (pc[p] = "s_find" /\ pc'[p] # "s_find" /\ CommittedStatus(p) = "failed")
                 => \/ pc'[p] = "s_saveTxn"
                    \/ response'.result = Thrown("QueryFailedError", "query failed")
          /\ (SuccessCommits(p) /\ entries[local[p].txnId].status = "failed") =>
                 LET w == entries[local[p].txnId].walletId IN
                 /\ entries'[local[p].txnId].status = "success"
                 /\ balance'[w] = balance[w] + (op[p].amount \div KoboPerNaira)]_vars

\* The positions of a charge.failed processing.
FailedPath ==
    {"f_find", "f_noop", "f_saveTxn", "f_commit"}

\* C16: no step of a charge.failed processing changes a wallet's balance; its
\* commit on an entry it found pending sets the entry to failed, and on an
\* entry it found failed it commits nothing and returns normally.
FailedChargeKeepsBalances ==
    [][\A p \in Procs :
          /\ (pc[p] \in FailedPath /\ pc'[p] # pc[p]) => balance' = balance
          /\ (pc[p] = "f_commit" /\ pc'[p] = "idle"
                  /\ response'.result.exception = "none"
                  /\ local[p].txnStatus = "pending")
                 => entries'[local[p].txnId].status = "failed"
          /\ (pc[p] = "f_find" /\ pc'[p] # "f_find" /\ CommittedStatus(p) = "failed")
                 => \/ pc'[p] = "f_noop"
                    \/ response'.result = Thrown("QueryFailedError", "query failed")
          /\ (pc[p] = "f_noop" /\ pc'[p] # "f_noop")
                 => /\ entries' = entries
                    /\ response'.result \in
                           {Returned, Thrown("QueryFailedError", "query failed")}]_vars

\* charge.failed was delivered twice for the pending deposit 2: the first
\* marked it failed, the second has found it failed; the balances are as
\* they were.
FailedTwiceDelivered ==
    \E p \in Procs :
        /\ pc[p] = "f_noop"
        /\ op[p].reference = 2
        /\ entries[2].status = "failed"
        /\ "failure_reason" \in entries[2].metadata
        /\ balance = InitialBalance

\* The lookup of a charge.success or charge.failed processing.
LookupPath ==
    {"s_find", "f_find"}

\* C17: a charge.success or charge.failed processing whose reference no entry
\* carries ends at its lookup with the not-found error thrown to the caller
\* and no balance and no entry changed, and leaves no write and no lock
\* behind; a lookup that finds the entry goes on, whatever was delivered
\* before.
UnknownReferenceNotFound ==
    [][\A p \in Procs :
          (pc[p] \in LookupPath /\ pc'[p] # pc[p]) =>
              IF FindTransaction(op[p].reference) = 0
              THEN /\ pc'[p] = "idle"
                   /\ response'.result \in
                          {Thrown("NotFoundException",
                                  "Transaction with reference not found"),
                           Thrown("QueryFailedError", "query failed")}
                   /\ balance' = balance
                   /\ entries' = entries
                   /\ wbuf'[p] = NoWrites
                   /\ \A l \in rowLocks' : l[3] # p
              ELSE \/ pc'[p] \in {"s_noop", "s_saveTxn", "f_noop", "f_saveTxn"}
                   \/ response'.result = Thrown("QueryFailedError", "query failed")]_vars

\* charge.success for reference 3 was answered not-found; then deposit 3 was
\* initiated and the same event, delivered again, has found the entry pending.
RedeliveryFoundEntry ==
    \E p \in Procs :
        /\ response.result = Thrown("NotFoundException",
                                    "Transaction with reference not found")
        /\ pc[p] = "s_saveTxn"
        /\ op[p].reference = 3
        /\ Len(entries) >= 3
        /\ entries[3].status = "pending"
        /\ balance = InitialBalance

\* The positions of a charge.success processing.
SuccessPath ==
    {"s_find", "s_noop", "s_saveTxn", "s_saveWallet", "s_commit"}

\* C18: every step of a charge.success processing either leaves the committed
\* entries and balances as they are, or is its commit, which makes the entry
\* success and applies the wallet write in the same step, touching no other
\* entry and no other wallet; a processing that ends between its two writes
\* ends with an error thrown to the caller and nothing written.
SuccessProcessingAtomic ==
    [][\A p \in Procs :
          /\ (pc[p] \in SuccessPath /\ pc'[p] # pc[p]) =>
                 \/ /\ balance' = balance
                    /\ entries' = entries
                 \/ /\ SuccessCommits(p)
                    /\ entries'[local[p].txnId].status = "success"
                    /\ balance'[local[p].walletId] =
                           local[p].walletBalance + (op[p].amount \div KoboPerNaira)
                    /\ \A i \in 1..Len(entries) :
                           i # local[p].txnId => entries'[i] = entries[i]
                    /\ \A w \in WalletIds :
                           w # local[p].walletId => balance'[w] = balance[w]
          /\ (pc[p] = "s_saveWallet" /\ pc'[p] = "idle") =>
                 /\ response'.result.exception \notin {"", "none"}
                 /\ balance' = balance
                 /\ entries' = entries
                 /\ wbuf'[p] = NoWrites]_vars

\* A processing of charge.success for deposit 2 has saved the status and not
\* yet the balance: the committed entry is still pending and the committed
\* balance untouched, while another request runs.
SuccessHalfWritten ==
    \E p, q \in Procs :
        /\ p # q
        /\ pc[p] = "s_saveWallet"
        /\ local[p].txnId = 2
        /\ 2 \in DOMAIN wbuf[p].txn
        /\ wbuf[p].txn[2].status = "success"
        /\ entries[2].status = "pending"
        /\ balance = InitialBalance
        /\ pc[q] # "idle"

\* The positions of a transfer that has read the sender's balance, and that
\* has read the recipient's too.
HasReadSender ==
    {"t_recipient", "t_debit", "t_credit", "t_entries", "t_commit"}

HasReadRecipient ==
    {"t_debit", "t_credit", "t_entries", "t_commit"}

\* C19: a request that has read a wallet's balance to compute a balance write
\* from it holds that wallet row's write lock, from the read until it ends.
BalanceReadUnderLock ==
    \A p \in Procs :
        /\ pc[p] \in HasReadSender
               => <<"wallet", local[p].senderId, p>> \in rowLocks
        /\ pc[p] \in HasReadRecipient
               => <<"wallet", local[p].recipientId, p>> \in rowLocks
        /\ pc[p] \in CreditPath
               => <<"wallet", local[p].walletId, p>> \in rowLocks

\* The outcome the precedence of transfer's checks prescribes for request p,
\* from the committed store: sender missing, recipient missing, transfer to
\* oneself, insufficient balance, else success.
TransferOutcome(p) ==
    LET s == FindWalletByUser(op[p].user)
        r == FindWalletByNumber(op[p].wallet_number)
    IN  IF s = NoWallet
        THEN Thrown("NotFoundException", "Sender wallet not found")
        ELSE IF r = NoWallet
        THEN Thrown("NotFoundException", "Recipient wallet not found")
        ELSE IF s = r
        THEN Thrown("BadRequestException", "Cannot transfer to yourself")
        ELSE IF balance[s] < op[p].amount
        THEN Thrown("BadRequestException", "Insufficient balance")
        ELSE [Returned EXCEPT !.status = "success"]

\* C20: a transfer with a valid amount ends with the outcome the precedence
\* prescribes, and so succeeds exactly when none of the four conditions
\* holds (a failure of the store itself apart).
TransferClassified ==
    [][\A p \in Procs :
          (op[p].kind = "transfer" /\ pc'[p] = "idle"
               /\ response'.result # Thrown("QueryFailedError", "query failed"))
              => response'.result = TransferOutcome(p)]_vars

\* The positions of a transfer whose store transaction is open.
TransferPath ==
    {"t_sender", "t_recipient", "t_debit", "t_credit", "t_entries", "t_commit"}

\* C21: a transfer that ends with an error after its transaction was opened
\* changes no committed balance and no entry, keeps no write and no lock, and
\* its error is the answer to the caller.
FailedTransferRolledBack ==
    [][\A p \in Procs :
          (pc[p] \in TransferPath /\ pc'[p] = "idle"
               /\ response'.result.status # "success") =>
              /\ response'.result.exception \in
                     {"NotFoundException", "BadRequestException", "QueryFailedError"}
              /\ balance' = balance
              /\ entries' = entries
              /\ wbuf'[p] = NoWrites
              /\ \A l \in rowLocks' : l[3] # p]_vars

\* A transfer was refused for insufficient balance after it had locked both
\* wallets; its locks are gone and the store is as the other requests left it.
TransferRolledBack ==
    /\ response.result = Thrown("BadRequestException", "Insufficient balance")
    /\ \A l \in rowLocks : pc[l[3]] # "idle"
    /\ \A p \in Procs : pc[p] = "idle" => wbuf[p] = NoWrites
    /\ \E i \in 1..Len(entries) : entries[i].type = "transfer_out"

\* C22: an initiateDeposit that passes its checks commits, before the gateway
\* is called, one new deposit entry in pending status for the caller's wallet,
\* the amount and a reference no entry carried; the gateway's answer or
\* failure changes no entry, so the entry stays, a failure is thrown to the
\* caller, and no step of initiateDeposit changes a balance.
DepositPendingBeforeGateway ==
    [][\A p \in Procs :
          /\ (pc[p] = "idle" /\ pc'[p] = "d_gateway") =>
                 LET n == Len(entries) IN
                 /\ Len(entries') = n + 1
                 /\ SubSeq(entries', 1, n) = entries
                 /\ entries'[n + 1].type = "deposit"
                 /\ entries'[n + 1].status = "pending"
                 /\ entries'[n + 1].amount = op'[p].amount
                 /\ entries'[n + 1].walletId = FindWalletByUser(op'[p].user)
                 /\ entries'[n + 1].reference = op'[p].reference
                 /\ \A i \in 1..n : entries[i].reference # op'[p].reference
                 /\ balance' = balance
          /\ (pc[p] = "d_gateway" /\ pc'[p] = "idle") =>
                 /\ entries' = entries
                 /\ balance' = balance
                 /\ \E i \in 1..Len(entries') :
                        entries'[i].reference = op[p].reference
                 /\ \/ response'.result = [Returned EXCEPT
                                              !.reference = op[p].reference]
                    \/ response'.result.exception \notin {"", "none"}]_vars

\* The gateway call of deposit 3 has failed: the caller got the error, the
\* entry is in the store, pending, and no balance has changed.
GatewayFailedEntryKept ==
    /\ response.result = Thrown("AxiosError", "Paystack initialization failed")
    /\ Len(entries) = 3
    /\ entries[3].status = "pending"
    /\ entries[3].reference = 3
    /\ balance = InitialBalance
    /\ \A p \in Procs : op[p].reference # 3

\* C23: an initiateDeposit by a user without wallet is answered not-found
\* and one with an amount below the minimum by the minimum-amount error;
\* such a request never reaches the gateway call and never leaves an entry:
\* every deposit entry is on an existing wallet with an amount of at least
\* the minimum.
DepositRefusals ==
    /\ response.op.kind = "deposit" =>
           IF FindWalletByUser(response.op.user) = NoWallet
           THEN response.result = Thrown("NotFoundException", "Wallet not found")
           ELSE /\ response.op.amount < 100
                /\ response.result = Thrown("BadRequestException",
                                            "Minimum deposit amount is N100")
    /\ \A p \in Procs :
           pc[p] = "d_gateway" =>
               /\ FindWalletByUser(op[p].user) # NoWallet
               /\ op[p].amount >= 100
    /\ \A i \in 1..Len(entries) :
           entries[i].type = "deposit" =>
               /\ entries[i].walletId \in WalletIds
               /\ entries[i].amount >= 100

\* A deposit of 50 by u1, who has a wallet, was refused while another request
\* was running: the store holds the entries it started with.
SmallDepositRefused ==
    /\ response.op.kind = "deposit"
    /\ response.op.user = "u1"
    /\ response.op.amount = 50
    /\ response.result.message = "Minimum deposit amount is N100"
    /\ entries = InitialEntries
    /\ \E q \in Procs : pc[q] # "idle"

\* C24: a webhook request without signature, or with one that is not the
\* HMAC of its payload under the shared secret, is answered with an error and
\* changes no entry, no balance, no lock and no write; a request enters a
\* handler only with the signature that verifies.
WebhookVerifiedFirst ==
    [][/\ (opsStarted' # opsStarted /\ pc' = pc /\ response'.op.kind = "webhook"
             /\ response'.op.signature #
                    <<"sha512", PaystackSecretKey,
                      <<response'.op.event, response'.op.reference,
                        response'.op.amount>>>>)
          => /\ response'.result \in
                    {Thrown("BadRequestException", "Missing Paystack signature"),
                     Thrown("BadRequestException", "Invalid Paystack signature")}
             /\ (response'.op.signature = <<>>)
                    <=> (response'.result.message = "Missing Paystack signature")
             /\ UNCHANGED <<balance, entries, rowLocks, wbuf>>
       /\ \A p \in Procs :
             (pc[p] = "idle" /\ pc'[p] \in {"s_find", "f_find"})
                 => op'[p].signature =
                        <<"sha512", PaystackSecretKey,
                          <<op'[p].event, op'[p].reference, op'[p].amount>>>>]_vars

\* A forged charge.success for the pending deposit 2 was refused: the deposit
\* is still pending and the balances are as they were.
ForgedWebhookRefused ==
    /\ response.op.kind = "webhook"
    /\ response.op.signature # NoSignature
    /\ response.result.message = "Invalid Paystack signature"
    /\ entries[2].status = "pending"
    /\ balance = InitialBalance

\* The event kinds the reconciler handles.
HandledEvents ==
    {"charge.success", "charge.failed"}

\* C25: a verified webhook event of any other kind is answered normally at
\* once: no transaction is opened for it, and no entry, balance, lock or write
\* changes; only charge.success and charge.failed events enter a handler.
UnknownEventIgnored ==
    [][/\ (opsStarted' # opsStarted /\ response'.op.kind = "webhook"
             /\ response' # response
             /\ response'.op.event \notin HandledEvents
             /\ response'.op.signature =
                    <<"sha512", PaystackSecretKey,
                      <<response'.op.event, response'.op.reference,
                        response'.op.amount>>>>)
          => /\ response'.result = Returned
             /\ pc' = pc
             /\ UNCHANGED <<balance, entries, rowLocks, wbuf>>
       /\ \A p \in Procs :
             (pc[p] = "idle" /\ pc'[p] # "idle" /\ op'[p].kind = "webhook")
                 => /\ op'[p].event \in HandledEvents
                    /\ pc'[p] = IF op'[p].event = "charge.success"
                                THEN "s_find" ELSE "f_find"]_vars

\* A verified transfer.success event naming the credited deposit 1 was
\* acknowledged while another request was running; deposit 1 and the balances
\* are as they were.
UnknownEventAcknowledged ==
    /\ response.op.kind = "webhook"
    /\ response.op.event = "transfer.success"
    /\ response.result = Returned
    /\ entries[1] = InitialEntries[1]
    /\ balance = InitialBalance
    /\ \E q \in Procs : pc[q] # "idle"

\* What entry e contributes to the balance of wallet w by the ledger's rule.
LedgerAmount(e, w) ==
    IF e.walletId # w THEN 0
    ELSE IF e.type = "deposit" /\ e.status = "success" THEN e.amount
    ELSE IF e.type = "transfer_in" THEN e.amount
    ELSE IF e.type = "transfer_out" THEN 0 - e.amount
    ELSE 0

RECURSIVE LedgerSum(_, _)
LedgerSum(es, w) ==
    IF es = <<>> THEN 0
    ELSE LedgerAmount(Head(es), w) + LedgerSum(Tail(es), w)

\* C26: each wallet's balance is its opening balance plus its success
\* deposits plus its transfers in minus its transfers out.
LedgerExplainsBalance ==
    \A w \in WalletIds :
        balance[w] - LedgerSum(entries, w)
            = InitialBalance[w] - LedgerSum(InitialEntries, w)

\* C27: every entry an operation creates carries a reference, no two entries
\* carry the same one, and no operation changes the reference of an entry.
ReferencesUniqueAndFixed ==
    [][/\ \A i \in 1..Len(entries') :
              /\ entries'[i].reference # NoRef
              /\ \A j \in 1..Len(entries') :
                     i # j => entries'[i].reference # entries'[j].reference
       /\ \A i \in 1..Len(entries) :
              entries'[i].reference = entries[i].reference]_vars

====
